---------------------------- MODULE Spec2Model ----------------------------
(***************************************************************************)
(* Model of the disaster dashboard script src/app.py: load_data (CSV read  *)
(* with a fallback path, month repair, date construction, severity score), *)
(* the sidebar selections, the filtering logic, the KPI row and the tabs.  *)
(* One script run is a walk of pc from "load" to "done", "stopped" or      *)
(* "failed"; Rerun starts the next run (Streamlit reruns the script on     *)
(* every interaction, load_data being memoised by st.cache_data).          *)
(*                                                                         *)
(* Floating-point values are exact rationals <<n, d>> in lowest terms with *)
(* d > 0; NaN is the empty tuple.  np.log1p is a three-decimal table.      *)
(***************************************************************************)
EXTENDS Integers, Sequences, FiniteSets, TLC

VARIABLES
    path1,              \* state of 'data/cleaned_data_final.csv'
    path2,              \* state of '../data/cleaned_data_final.csv'
    contents,           \* the rows of the CSV file, when one is readable
    cache,              \* st.cache_data's entry for load_data()
    reads,              \* the paths pd.read_csv has been called on so far
    df,                 \* module-level df: the value load_data() returned
    pc,                 \* position of the script run
    selected_years,     \* <<lo, hi>> of the "Analysis Period" slider
    selected_types,     \* the "Disaster Types" multiselect
    selected_country,   \* the "Region Focus" selectbox
    severity_threshold, \* the "Min. Severity Score" slider
    filtered_df,        \* the filtered rows
    kpi,                \* the four st.metric values of the KPI row
    radar,              \* what plot_seasonal_radar returned
    rendered            \* the elements displayed so far in this run

vars == <<path1, path2, contents, cache, reads, df, pc, selected_years,
          selected_types, selected_country, severity_threshold, filtered_df,
          kpi, radar, rendered>>

(***************************************************************************)
(* Bounds of the model.                                                    *)
(***************************************************************************)
MaxRows == 2

(***************************************************************************)
(* Floats.                                                                 *)
(***************************************************************************)
NaN == <<>>

NaT == <<>>

IsNaN(x) == x = NaN

Abs(n) == IF n < 0 THEN -n ELSE n

RECURSIVE GCD(_, _)
GCD(a, b) == IF b = 0 THEN a ELSE GCD(b, a % b)

\* the rational n/d (d # 0) in lowest terms with a positive denominator
Norm(n, d) ==
    LET g == GCD(Abs(n), Abs(d))
        s == IF d < 0 THEN -1 ELSE 1
    IN  <<(s * n) \div g, (s * d) \div g>>

Float(n) == <<n, 1>>

FAdd(a, b) ==
    IF IsNaN(a) \/ IsNaN(b) THEN NaN
    ELSE Norm(a[1] * b[2] + b[1] * a[2], a[2] * b[2])

\* a / b for b # 0 (the only division of the script is guarded by max_score > 0
\* and the other divides by the literal 1e9)
FDiv(a, b) ==
    IF IsNaN(a) \/ IsNaN(b) THEN NaN
    ELSE Norm(a[1] * b[2], a[2] * b[1])

FMul(a, b) ==
    IF IsNaN(a) \/ IsNaN(b) THEN NaN
    ELSE Norm(a[1] * b[1], a[2] * b[2])

\* comparisons with NaN are False
FGe(a, b) == ~IsNaN(a) /\ ~IsNaN(b) /\ a[1] * b[2] >= b[1] * a[2]

FGt(a, b) == ~IsNaN(a) /\ ~IsNaN(b) /\ a[1] * b[2] > b[1] * a[2]

\* int(x): truncation toward zero
Trunc(x) == IF x[1] >= 0 THEN x[1] \div x[2] ELSE -((-x[1]) \div x[2])

\* x rounded to the nearest multiple of 1/unit, as the integer number of
\* such multiples (the digits a '.Nf' format prints)
RoundTo(x, unit) ==
    LET n == x[1] * unit * 2 + x[2]
        d == x[2] * 2
    IN  IF n >= 0 THEN n \div d ELSE -(((-n) + d - 1) \div d)

\* np.log1p on the amounts of the model: ln(1+x) to three decimals
Log1pTable == << <<0, 1>>, <<693, 1000>>, <<1099, 1000>>, <<1386, 1000>> >>

log1p(x) ==
    IF IsNaN(x) THEN NaN
    ELSE LET e == Log1pTable[Trunc(x) + 1] IN Norm(e[1], e[2])

\* Series.sum(): NaN skipped, 0 for an empty series
RECURSIVE SumSkipNa(_)
SumSkipNa(s) ==
    IF s = <<>> THEN Float(0)
    ELSE IF IsNaN(Head(s)) THEN SumSkipNa(Tail(s))
    ELSE FAdd(Head(s), SumSkipNa(Tail(s)))

NotNa(s) == SelectSeq(s, LAMBDA x : ~IsNaN(x))

\* Series.max(): NaN skipped, NaN when nothing is left
MaxSkipNa(s) ==
    LET v == {s[i] : i \in {j \in DOMAIN s : ~IsNaN(s[j])}}
    IN  IF v = {} THEN NaN ELSE CHOOSE m \in v : \A x \in v : FGe(m, x)

\* Series.mean(): NaN skipped, NaN when nothing is left
MeanSkipNa(s) ==
    IF NotNa(s) = <<>> THEN NaN
    ELSE FDiv(SumSkipNa(s), Float(Len(NotNa(s))))

Column(frame, c) == [i \in DOMAIN frame |-> frame[i][c]]

WithColumn(frame, c, values) ==
    [i \in DOMAIN frame |-> (c :> values[i]) @@ frame[i]]

(***************************************************************************)
(* load_data                                                               *)
(***************************************************************************)
None == [kind |-> "None", rows |-> <<>>]

DataFrame(rows) == [kind |-> "DataFrame", rows |-> rows]

\* pd.read_csv: the file's rows under a RangeIndex
read_csv(rows) ==
    [i \in DOMAIN rows |-> ("index" :> (i - 1)) @@ rows[i]]

\* month_clean with the result clamped into 1..12
month_clean_clamped(month) ==
    LET filled   == IF IsNaN(month) THEN Float(1) ELSE month
        replaced == IF filled = Float(0) THEN Float(1) ELSE filled
        m        == Trunc(replaced)
    IN  IF m < 1 THEN 1 ELSE IF m > 12 THEN 12 ELSE m

\* df['month'].fillna(1).replace(0, 1).astype(int)
month_clean(month) ==
    LET filled   == IF IsNaN(month) THEN Float(1) ELSE month
        replaced == IF filled = Float(0) THEN Float(1) ELSE filled
    IN  Trunc(replaced)

\* pd.to_datetime(year + '-' + zfill(month, 2) + '-01', errors='coerce') of
\* one element: a date when the month field is a calendar month, else NaT
to_datetime(year, month) ==
    IF month \in 1..12 THEN <<year, month, 1>> ELSE NaT

\* date_column without the refill of the NaT rows
date_column_unfilled(frame) ==
    [i \in DOMAIN frame |-> to_datetime(frame[i].year, frame[i].month_clean)]

\* lines 51-58: the date column, with the NaT rows refilled from the year
date_column(frame) ==
    [i \in DOMAIN frame |->
        LET d == to_datetime(frame[i].year, frame[i].month_clean)
        IN  IF d = NaT THEN to_datetime(frame[i].year, 1) ELSE d]

\* severity_score left as a fraction of the maximum, not scaled to 100
severity_score_fraction(frame) ==
    LET raw == [i \in DOMAIN frame |->
                   FAdd(frame[i].log_casualties, frame[i].log_loss)]
        max_score == MaxSkipNa(raw)
    IN  IF FGt(max_score, Float(0))
        THEN [i \in DOMAIN frame |-> FDiv(raw[i], max_score)]
        ELSE [i \in DOMAIN frame |-> Float(0)]

\* lines 62-71: the normalised severity score
severity_score(frame) ==
    LET raw == [i \in DOMAIN frame |->
                   FAdd(frame[i].log_casualties, frame[i].log_loss)]
        max_score == MaxSkipNa(raw)
    IN  IF FGt(max_score, Float(0))
        THEN [i \in DOMAIN frame |->
                 FMul(FDiv(raw[i], max_score), Float(100))]
        ELSE [i \in DOMAIN frame |-> Float(0)]

\* lines 46-73 on the frame read_csv returned
enrich(frame) ==
    LET f1 == WithColumn(frame, "month_clean",
                  [i \in DOMAIN frame |-> month_clean(frame[i].month)])
        f2 == WithColumn(f1, "date", date_column(f1))
        f3 == WithColumn(f2, "log_casualties",
                  [i \in DOMAIN frame |-> log1p(frame[i].casualties)])
        f4 == WithColumn(f3, "log_loss",
                  [i \in DOMAIN frame |-> log1p(frame[i].economic_loss_usd)])
    IN  WithColumn(f4, "severity_score", severity_score(f4))

\* lines 37-44: which reads are made and whether one succeeds
paths_read(p1, p2) == IF p1 = "missing" THEN <<1, 2>> ELSE <<1>>

read_ok(p1, p2) == p1 = "ok" \/ (p1 = "missing" /\ p2 = "ok")

\* load_data returning an empty frame where it returns None
load_data_empty_on_failure(p1, p2, rows) ==
    IF read_ok(p1, p2) THEN DataFrame(enrich(read_csv(rows)))
    ELSE DataFrame(<<>>)

load_data(p1, p2, rows) ==
    IF read_ok(p1, p2) THEN DataFrame(enrich(read_csv(rows))) ELSE None

(***************************************************************************)
(* Sidebar and filtering logic                                             *)
(***************************************************************************)
Range(s) == {s[i] : i \in DOMAIN s}

\* the values the "Min. Severity Score" slider (0..100) is moved to
SeverityFloors == {0, 50, 100}

min_year(frame) == CHOOSE y \in Range(Column(frame, "year")) :
                       \A z \in Range(Column(frame, "year")) : y <= z

max_year(frame) == CHOOSE y \in Range(Column(frame, "year")) :
                       \A z \in Range(Column(frame, "year")) : y >= z

all_types(frame) == Range(Column(frame, "disaster_type"))

all_countries(frame) == {"All World"} \cup Range(Column(frame, "country"))

\* year_severity_mask with the threshold exclusive
year_severity_mask_exclusive(r, years, threshold) ==
    /\ r.year >= years[1]
    /\ r.year <= years[2]
    /\ FGt(r.severity_score, Float(threshold))

\* lines 107-111: the year range and the severity threshold, one mask
year_severity_mask(r, years, threshold) ==
    /\ r.year >= years[1]
    /\ r.year <= years[2]
    /\ FGe(r.severity_score, Float(threshold))

\* type_filter applied to an empty selection too
type_filter_always(frame, types) ==
    SelectSeq(frame, LAMBDA r : r.disaster_type \in types)

\* lines 113-114
type_filter(frame, types) ==
    IF types # {}
    THEN SelectSeq(frame, LAMBDA r : r.disaster_type \in types)
    ELSE frame

\* lines 116-117
country_filter(frame, country) ==
    IF country # "All World"
    THEN SelectSeq(frame, LAMBDA r : r.country = country)
    ELSE frame

\* filtering_logic with the score normalised again on the subset
filtering_logic_rescored(frame, years, types, country, threshold) ==
    LET subset == country_filter(
                      type_filter(
                          SelectSeq(frame, LAMBDA r :
                              year_severity_mask(r, years, threshold)),
                          types),
                      country)
    IN  [i \in DOMAIN subset |->
            [subset[i] EXCEPT !.severity_score = severity_score(subset)[i]]]

\* lines 107-117
filtering_logic(frame, years, types, country, threshold) ==
    country_filter(
        type_filter(
            SelectSeq(frame,
                      LAMBDA r : year_severity_mask(r, years, threshold)),
            types),
        country)

(***************************************************************************)
(* KPI row and charts                                                      *)
(***************************************************************************)
Billion == 1000000000

\* an f-string number format with 1/unit as its last digit: 'nan' for NaN
Format(x, unit) ==
    IF IsNaN(x) THEN [text |-> "nan", value |-> 0]
    ELSE [text |-> "number", value |-> RoundTo(x, unit)]

NoMetrics ==
    [shown |-> FALSE, events |-> 0,
     casualties |-> Format(NaN, 1), loss |-> Format(NaN, 1),
     avg_severity |-> Format(NaN, 1)]

\* lines 210-217
kpi_metrics(data) ==
    LET total_loss   == SumSkipNa(Column(data, "economic_loss_usd"))
        avg_severity == MeanSkipNa(Column(data, "severity_score"))
    IN  [shown |-> TRUE,
         events |-> Len(data),
         casualties |-> Format(SumSkipNa(Column(data, "casualties")), 1),
         loss |-> Format(FDiv(total_loss, Float(Billion)), 100),
         avg_severity |-> Format(avg_severity, 10)]

NoFigure == [kind |-> "None", data |-> <<>>]

NotPlotted == [kind |-> "NotPlotted", data |-> <<>>]

\* lines 123-144: the figure is described by the number of events on it
plot_3d_globe(data) ==
    LET map_data == SelectSeq(data, LAMBDA r :
                        ~IsNaN(r.latitude) /\ ~IsNaN(r.longitude))
    IN  IF data = <<>> \/ map_data = <<>> THEN NoFigure
        ELSE [kind |-> "Figure", data |-> <<Len(map_data)>>]

month_map == <<"Jan", "Feb", "Mar", "Apr", "May", "Jun",
               "Jul", "Aug", "Sep", "Oct", "Nov", "Dec">>

\* monthly['month'].map(month_map): NaN for a key the dict does not hold
month_name(m) ==
    IF m[2] = 1 /\ m[1] \in DOMAIN month_map THEN month_map[m[1]] ELSE "NaN"

\* the elements of a set of floats in ascending order
RECURSIVE Ascending(_)
Ascending(S) ==
    IF S = {} THEN <<>>
    ELSE LET m == CHOOSE x \in S : \A y \in S : FGe(y, x)
         IN  <<m>> \o Ascending(S \ {m})

\* data.groupby('month').size().reset_index(name='count'): one row per
\* distinct non-null month, ascending
monthly_counts(data) ==
    LET keys == Ascending({r.month : r \in {x \in Range(data) : ~IsNaN(x.month)}})
    IN  [k \in DOMAIN keys |->
            [month |-> keys[k],
             count |-> Cardinality({i \in DOMAIN data : data[i].month = keys[k]}),
             month_name |-> month_name(keys[k])]]

\* lines 146-163: monthly.iloc[[0]] raises IndexError on an empty grouping
plot_seasonal_radar(data) ==
    IF data = <<>> THEN NoFigure
    ELSE LET monthly == monthly_counts(data)
         IN  IF monthly = <<>> THEN [kind |-> "IndexError", data |-> <<>>]
             ELSE [kind |-> "Figure", data |-> Append(monthly, monthly[1])]

\* the other plot_* functions: None on empty data, else a figure
plot_other(data) ==
    IF data = <<>> THEN NoFigure
    ELSE [kind |-> "Figure", data |-> <<Len(data)>>]

(***************************************************************************)
(* The CSV files the model starts from                                     *)
(***************************************************************************)
Years == {2020, 2021}

Months == {NaN, Float(0), Float(3), Float(13), Float(-1), <<5, 2>>}

BaseRow ==
    [year |-> 2020, month |-> Float(3), country |-> "A",
     disaster_type |-> "Flood", casualties |-> Float(1),
     economic_loss_usd |-> Float(0), latitude |-> Float(0),
     longitude |-> Float(0)]

MonthRows ==
    {[BaseRow EXCEPT !.year = y, !.month = m] : y \in Years, m \in Months}

SeverityRows ==
    {[BaseRow EXCEPT !.casualties = c, !.economic_loss_usd = l] :
        c \in {NaN, Float(0), Float(1), Float(3)},
        l \in {NaN, Float(0), Float(3)}}

\* the storms of these files are the deadlier events
FilterRows ==
    {[BaseRow EXCEPT !.year = y, !.disaster_type = t, !.country = c,
                     !.casualties = IF t = "Storm" THEN Float(3) ELSE Float(1)] :
        y \in Years, t \in {"Flood", "Storm"}, c \in {"A", "B"}}

GeoRows ==
    {[BaseRow EXCEPT !.latitude = la, !.longitude = lo] :
        la \in {NaN, Float(0)}, lo \in {NaN, Float(0)}}

UpTo(S) == UNION {[1..n -> S] : n \in 0..MaxRows}

Files ==
    UpTo(MonthRows) \cup UpTo(SeverityRows) \cup UpTo(FilterRows)
        \cup UpTo(GeoRows)

Init ==
    /\ \/ path1 = "ok" /\ path2 = "missing" /\ contents \in Files
       \/ path1 = "missing" /\ path2 = "ok" /\ contents \in UpTo(GeoRows)
       \/ /\ path1 \in {"missing", "unreadable"}
          /\ path2 \in {"ok", "missing", "unreadable"}
          /\ ~read_ok(path1, path2)
          /\ contents = <<>>
    /\ cache = [hit |-> FALSE, value |-> None]
    /\ reads = <<>>
    /\ df = None
    /\ pc = "load"
    /\ selected_years = <<>>
    /\ selected_types = {}
    /\ selected_country = "All World"
    /\ severity_threshold = 0
    /\ filtered_df = <<>>
    /\ kpi = NoMetrics
    /\ radar = NotPlotted
    /\ rendered = <<>>

(***************************************************************************)
(* The script                                                              *)
(***************************************************************************)
\* line 76, load_data under @st.cache_data: the body runs on a cache miss
LoadData ==
    /\ pc = "load"
    /\ IF cache.hit
       THEN /\ df' = cache.value
            /\ UNCHANGED <<cache, reads>>
       ELSE /\ df' = load_data(path1, path2, contents)
            /\ cache' = [hit |-> TRUE,
                         value |-> load_data(path1, path2, contents)]
            /\ reads' = reads \o paths_read(path1, path2)
    /\ pc' = IF df'.kind = "None" THEN "halt" ELSE "sidebar"
    /\ UNCHANGED <<path1, path2, contents, selected_years, selected_types,
                   selected_country, severity_threshold, filtered_df, kpi,
                   radar, rendered>>

\* lines 77-79: st.error and st.stop
Halt ==
    /\ pc = "halt"
    /\ rendered' = Append(rendered, "error")
    /\ pc' = "stopped"
    /\ UNCHANGED <<path1, path2, contents, cache, reads, df, selected_years,
                   selected_types, selected_country, severity_threshold,
                   filtered_df, kpi, radar>>

\* lines 84-104: int(df['year'].min()) raises on a frame without rows
Sidebar ==
    /\ pc = "sidebar"
    /\ \/ /\ df.rows = <<>>
          /\ pc' = "failed"
          /\ UNCHANGED <<selected_years, selected_types, selected_country,
                         severity_threshold>>
       \/ /\ df.rows # <<>>
          /\ \E lo \in min_year(df.rows)..max_year(df.rows) :
                \E hi \in lo..max_year(df.rows) :
                    selected_years' = <<lo, hi>>
          /\ selected_types' \in SUBSET all_types(df.rows)
          /\ selected_country' \in all_countries(df.rows)
          /\ severity_threshold' \in SeverityFloors
          /\ pc' = "filter"
    /\ UNCHANGED <<path1, path2, contents, cache, reads, df, filtered_df,
                   kpi, radar, rendered>>

\* lines 107-117
Filter ==
    /\ pc = "filter"
    /\ filtered_df' = filtering_logic(df.rows, selected_years, selected_types,
                                      selected_country, severity_threshold)
    /\ pc' = "metrics"
    /\ UNCHANGED <<path1, path2, contents, cache, reads, df, selected_years,
                   selected_types, selected_country, severity_threshold, kpi,
                   radar, rendered>>

\* lines 206-219
Metrics ==
    /\ pc = "metrics"
    /\ kpi' = kpi_metrics(filtered_df)
    /\ rendered' = rendered \o <<"title", "metrics">>
    /\ pc' = "tab1"
    /\ UNCHANGED <<path1, path2, contents, cache, reads, df, selected_years,
                   selected_types, selected_country, severity_threshold,
                   filtered_df, radar>>

\* st.plotly_chart(fig): given None it shows nothing or raises, which the
\* script does not decide
Tab(at, figure, before, after, next) ==
    /\ pc = at
    /\ \/ /\ figure.kind \in {"Figure", "None"}
          /\ rendered' = rendered \o before \o after
          /\ pc' = next
       \/ /\ figure.kind # "Figure"
          /\ rendered' = rendered \o before
          /\ pc' = "failed"

\* lines 230-243
Tab1 ==
    /\ Tab("tab1", plot_3d_globe(filtered_df), <<>>,
           <<"globe", "top_risk", "download">>, "tab2")
    /\ UNCHANGED <<path1, path2, contents, cache, reads, df, selected_years,
                   selected_types, selected_country, severity_threshold,
                   filtered_df, kpi, radar>>

\* lines 246-261
Tab2 ==
    /\ Tab("tab2", plot_seasonal_radar(filtered_df),
           IF SelectSeq(filtered_df, LAMBDA r : r.date # NaT) # <<>>
           THEN <<"timeline">> ELSE <<"warning">>,
           <<"radar">>, "tab3")
    /\ radar' = plot_seasonal_radar(filtered_df)
    /\ UNCHANGED <<path1, path2, contents, cache, reads, df, selected_years,
                   selected_types, selected_country, severity_threshold,
                   filtered_df, kpi>>

\* lines 264-273
Tab3 ==
    /\ Tab("tab3", plot_other(filtered_df), <<>>,
           <<"boxplot", "sunburst">>, "tab4")
    /\ UNCHANGED <<path1, path2, contents, cache, reads, df, selected_years,
                   selected_types, selected_country, severity_threshold,
                   filtered_df, kpi, radar>>

\* lines 276-284
Tab4 ==
    /\ Tab("tab4", plot_other(filtered_df), <<>>,
           <<"scatter", "insight">>, "done")
    /\ UNCHANGED <<path1, path2, contents, cache, reads, df, selected_years,
                   selected_types, selected_country, severity_threshold,
                   filtered_df, kpi, radar>>

\* a widget interaction: Streamlit runs the script again from the top
Rerun ==
    /\ pc \in {"done", "stopped", "failed"}
    /\ pc' = "load"
    /\ df' = None
    /\ selected_years' = <<>>
    /\ selected_types' = {}
    /\ selected_country' = "All World"
    /\ severity_threshold' = 0
    /\ filtered_df' = <<>>
    /\ kpi' = NoMetrics
    /\ radar' = NotPlotted
    /\ rendered' = <<>>
    /\ UNCHANGED <<path1, path2, contents, cache, reads>>

Next ==
    \/ LoadData
    \/ Halt
    \/ Sidebar
    \/ Filter
    \/ Metrics
    \/ Tab1
    \/ Tab2
    \/ Tab3
    \/ Tab4
    \/ Rerun

Spec == Init /\ [][Next]_vars

(***************************************************************************)
(* Properties                                                              *)
(***************************************************************************)
\* the filtering logic has just run (nothing after it assigns filtered_df,
\* df or a selection before the next run)
Filtered == pc = "metrics"

\* load_data has just returned
Returned == pc \in {"halt", "sidebar"}

Loaded == Returned /\ df.kind = "DataFrame"

\* the filter specification's predicate on one row, as the specification
\* words it
Keep(r) ==
    /\ selected_years[1] <= r.year /\ r.year <= selected_years[2]
    /\ FGe(r.severity_score, Float(severity_threshold))
    /\ (selected_types = {} \/ r.disaster_type \in selected_types)
    /\ (selected_country = "All World" \/ r.country = selected_country)

\* C1: the filtered subset is exactly the rows of the dataset with
\* lo <= year <= hi, severity_score >= floor, type in the set (or the set
\* empty) and country equal (or "All World"), in the dataset's order.
C1_FilterExact ==
    Filtered =>
        /\ \A i \in DOMAIN df.rows :
              Keep(df.rows[i]) <=>
                  \E k \in DOMAIN filtered_df : filtered_df[k] = df.rows[i]
        /\ \A k \in DOMAIN filtered_df :
              filtered_df[k] = df.rows[filtered_df[k].index + 1]
        /\ \A j, k \in DOMAIN filtered_df :
              j < k => filtered_df[j].index < filtered_df[k].index

\* a one-year range, a type and a country selected, the floor at a row's
\* own score: the second row of two is kept, the first dropped
C1_Witness ==
    /\ pc = "metrics"
    /\ Len(df.rows) = 2
    /\ Len(filtered_df) = 1
    /\ filtered_df[1].index = 1
    /\ selected_years = <<filtered_df[1].year, filtered_df[1].year>>
    /\ selected_types = {filtered_df[1].disaster_type}
    /\ selected_country = filtered_df[1].country
    /\ filtered_df[1].severity_score = Float(severity_threshold)
    /\ severity_threshold = 100

\* C2: an empty type selection filters as the selection of every type of
\* the dataset does, and excludes no row by itself.
C2_EmptyTypesMeansAll ==
    Filtered /\ selected_types \in {{}, all_types(df.rows)} =>
        /\ filtered_df = filtering_logic(df.rows, selected_years, {},
                             selected_country, severity_threshold)
        /\ filtered_df = filtering_logic(df.rows, selected_years,
                             all_types(df.rows), selected_country,
                             severity_threshold)
        /\ \A i \in DOMAIN df.rows :
              /\ selected_years[1] <= df.rows[i].year
              /\ df.rows[i].year <= selected_years[2]
              /\ FGe(df.rows[i].severity_score, Float(severity_threshold))
              /\ selected_country \in {"All World", df.rows[i].country}
              => df.rows[i] \in Range(filtered_df)

C2_Witness ==
    /\ pc = "metrics"
    /\ selected_types = {}
    /\ Cardinality(all_types(df.rows)) = 2
    /\ Len(filtered_df) = 2

\* the file with every missing casualties and economic_loss_usd set to 0
ZeroFilled(rows) ==
    [i \in DOMAIN rows |->
        [rows[i] EXCEPT
            !.casualties = IF IsNaN(@) THEN Float(0) ELSE @,
            !.economic_loss_usd = IF IsNaN(@) THEN Float(0) ELSE @]]

Missing(r) == IsNaN(r.casualties) \/ IsNaN(r.economic_loss_usd)

\* C3: a row with a missing casualties or economic_loss_usd is scored as if
\* the value were 0, is kept by a filter that restricts nothing, and leaves
\* the other rows' scores as they are with 0 in its place.
C3_MissingAsZero ==
    Filtered /\ (\E i \in DOMAIN df.rows : Missing(df.rows[i])) =>
        /\ \A i \in DOMAIN df.rows :
              df.rows[i].severity_score =
                  enrich(read_csv(ZeroFilled(contents)))[i].severity_score
        /\ \A i \in DOMAIN df.rows :
              /\ Missing(df.rows[i])
              /\ selected_years[1] <= df.rows[i].year
              /\ df.rows[i].year <= selected_years[2]
              /\ selected_types = {}
              /\ selected_country = "All World"
              /\ severity_threshold = 0
              => df.rows[i] \in Range(filtered_df)

RawScore(r) == FAdd(log1p(r.casualties), log1p(r.economic_loss_usd))

\* C4: on a non-empty dataset without missing amounts every severity_score
\* is in [0,100]; the rows with the maximal raw score, when that is
\* positive, score exactly 100; all-zero amounts score 0 everywhere.
C4_SeverityRange ==
    Loaded /\ df.rows # <<>> =>
        LET top == MaxSkipNa([i \in DOMAIN contents |-> RawScore(contents[i])])
        IN  /\ (\A i \in DOMAIN contents : ~Missing(contents[i])) =>
                  \A i \in DOMAIN df.rows :
                      /\ FGe(df.rows[i].severity_score, Float(0))
                      /\ FGe(Float(100), df.rows[i].severity_score)
            /\ FGt(top, Float(0)) =>
                  \A i \in DOMAIN df.rows :
                      RawScore(contents[i]) = top =>
                          df.rows[i].severity_score = Float(100)
            /\ (\A i \in DOMAIN contents :
                    /\ contents[i].casualties = Float(0)
                    /\ contents[i].economic_loss_usd = Float(0)) =>
                  \A i \in DOMAIN df.rows :
                      df.rows[i].severity_score = Float(0)

C4_Witness ==
    /\ Loaded
    /\ Len(df.rows) = 2
    /\ \A i \in DOMAIN contents : ~Missing(contents[i])
    /\ df.rows[1].severity_score = Float(100)
    /\ FGt(df.rows[2].severity_score, Float(0))
    /\ FGt(Float(100), df.rows[2].severity_score)

InRange(m) == FGe(m, Float(1)) /\ FGe(Float(12), m)

\* C6: month_clean is 1 for a null or zero month and int(month) otherwise:
\* in 1..12 when month was null, 0 or in range, and an out-of-range month
\* such as 13 or -1 passes through.
C6_MonthClean ==
    Loaded =>
        \A i \in DOMAIN df.rows :
            LET m  == contents[i].month
                mc == df.rows[i].month_clean
            IN  /\ (IsNaN(m) \/ m = Float(0)) => mc = 1
                /\ ~(IsNaN(m) \/ m = Float(0)) => mc = Trunc(m)
                /\ (IsNaN(m) \/ m = Float(0) \/ InRange(m)) => mc \in 1..12
                /\ m = Float(13) => mc = 13
                /\ m = Float(-1) => mc = -1

C6_Witness ==
    /\ Loaded
    /\ Len(df.rows) = 2
    /\ contents[1].month = Float(13)
    /\ df.rows[1].month_clean = 13
    /\ contents[2].month = Float(0)
    /\ df.rows[2].month_clean = 1

\* C7: the seasonal distribution of every filtered subset has exactly 12
\* entries Jan..Dec, each the number of subset rows with that month_clean.
C7_SeasonalTwelve ==
    radar # NotPlotted =>
        /\ Len(radar.data) = 12
        /\ \A m \in 1..12 :
              /\ m \in DOMAIN radar.data
              /\ radar.data[m].month_name = month_map[m]
              /\ radar.data[m].count =
                     Cardinality({i \in DOMAIN filtered_df :
                                     filtered_df[i].month_clean = m})

\* C8: on an empty subset the run does not fail, the average-severity
\* metric is not NaN, and count, casualties and loss show 0.
C8_EmptyPlaceholder ==
    kpi.shown /\ filtered_df = <<>> =>
        /\ pc # "failed"
        /\ kpi.avg_severity.text # "nan"
        /\ kpi.events = 0
        /\ kpi.casualties = Format(Float(0), 1)
        /\ kpi.loss = Format(Float(0), 100)

\* C9: when the file cannot be read load_data returns None, the script
\* shows the error and stops, and nothing downstream runs; the second path
\* is read only after the first was not found.
C9_LoadFailureHalts ==
    /\ pc # "load" /\ ~read_ok(path1, path2) =>
          /\ df = None
          /\ pc \in {"halt", "stopped"}
          /\ selected_years = <<>>
          /\ filtered_df = <<>>
          /\ ~kpi.shown
          /\ radar = NotPlotted
          /\ rendered = IF pc = "stopped" THEN <<"error">> ELSE <<>>
    /\ pc # "load" /\ read_ok(path1, path2) => df # None
    /\ 2 \in Range(reads) => path1 = "missing" /\ reads = <<1, 2>>
    /\ reads # <<>> /\ path1 # "missing" => reads = <<1>>

C9_Witness ==
    /\ pc = "stopped"
    /\ path1 = "missing"
    /\ path2 = "unreadable"
    /\ reads = <<1, 2>>
    /\ df = None

\* C10: filtering the subset again with the same selections changes
\* nothing, the dataset is the one load_data returned, and a subset row
\* carries the score computed on the full dataset.
C10_FilterIdempotentPure ==
    Filtered =>
        /\ filtering_logic(filtered_df, selected_years, selected_types,
                           selected_country, severity_threshold) = filtered_df
        /\ df = cache.value
        /\ \A k \in DOMAIN filtered_df :
              filtered_df[k].severity_score =
                  df.rows[filtered_df[k].index + 1].severity_score

\* the row with the maximal score is filtered out, the other keeps its 50
C10_Witness ==
    /\ pc = "metrics"
    /\ Len(df.rows) = 2
    /\ Len(filtered_df) = 1
    /\ filtered_df[1].severity_score = Float(50)

=============================================================================
